---------------------------- MODULE Spec2Model ----------------------------
(***************************************************************************)
(* A model of the automated survey of smprofiler                           *)
(* (analysis_replication/survey.py) and of the statistics helper it calls  *)
(* (smprofiler/db/http_data_accessor.py).                                  *)
(*                                                                         *)
(* Floating point numbers are modelled as exact rationals n/d (d > 0),     *)
(* extended with NaN, +inf and -inf where the code can meet them.          *)
(***************************************************************************)
EXTENDS Integers, Sequences, FiniteSets, TLC

VARIABLES
    \* ---- Limits (survey.py, class Limits) ----
    limits,        \* the Limits object: "unconstructed", a record, or "LinAlgError"
    query,         \* the ResultSignificance last passed to Limits.acceptable
    answer,        \* what Limits.acceptable returned for it
    calibration,   \* the arguments of the Limits(...) call made by Construct
    \* ---- SimpleConfounding ----
    r1, r2,        \* the two Result objects of a SimpleConfounding
    confounded,    \* what probable_confounding returned
    \* ---- StudyAutoAssessor ----
    pc,            \* position of get_filtered_results
    channels,      \* self.channels
    cohorts,       \* self.cohorts
    cases,         \* the tuple last returned by _get_cases
    phase,         \* the phase last requested of _get_cases
    access,        \* self.access, the data accessor and what it answers
    assessed,      \* the Results _assess_case has returned so far, in order
    fetches,       \* number of metadata fetches made so far
    singleton_significants,
    ratio_significants,
    proximity_significants,
    log,           \* the calls of self.logger made so far, in order
    error,         \* the exception that left get_filtered_results, if any
    answered,      \* what the data accessor last answered or raised
    \* ---- univariate_pair_compare / _assess_case_df ----
    series1, series2,  \* the two value series of the case
    pvalue,            \* the p-value ttest_ind answers for the two lists
    outcome,           \* what the assessment returned or raised
    \* ---- StudyDataAccessor._retrieve / _polling_retrieve_values ----
    cache,         \* self.cache: the payload stored under each url
    network,       \* the urls requested over the network so far, in order
    retrieved,     \* what the last _retrieve call returned or raised
    polling,       \* position and outcome of _polling_retrieve_values
    \* ---- ChainableDestructableResource ----
    resources,     \* the objects, each with its _subresources list
    released,      \* the objects whose release has run, in order
    \* ---- TerminalScrollingBuffer ----
    buffer,        \* the buffer object
    added,         \* the add_line calls made so far, in order
    display,       \* what the last _update_display showed
    printed,       \* what release has printed
    \* ---- SimpleFileCache ----
    store,         \* the cache table of cache.sqlite3: committed and as the connection sees it
    session,       \* the add and drop calls made on the open cache, in order
    found,         \* what the last lookup returned
    \* ---- DiagnosisParser ----
    diagnosis,     \* the rows of the diagnosis table
    parsed         \* the last parse call and what it did

vars == <<limits, query, answer, r1, r2, confounded, pc, channels, cohorts,
          cases, phase, access, assessed, fetches, singleton_significants,
          ratio_significants, proximity_significants, series1, series2,
          pvalue, outcome, calibration, log, error, answered, cache, network, retrieved, polling,
          resources, released, buffer, added, display, printed,
          store, session, found, diagnosis, parsed>>

limitsVars == <<limits, query, answer, calibration>>
confoundingVars == <<r1, r2, confounded>>
surveyVars == <<pc, channels, cohorts, cases, phase, access, assessed, fetches,
                singleton_significants, ratio_significants,
                proximity_significants, log, error, answered>>
runVars == <<log, error, answered>>
compareVars == <<series1, series2, pvalue, outcome>>
retrieveVars == <<cache, network, retrieved, polling>>
resourceVars == <<resources, released>>
bufferVars == <<buffer, added, display, printed>>
storeVars == <<store, session, found>>
tableVars == <<diagnosis, parsed>>
componentVars == <<retrieveVars, resourceVars, bufferVars, storeVars, tableVars>>

\* Python's None for a variable that holds a record, and for one that holds
\* a plain value (held as the one-element sequence <<value>>).
None == [k |-> "None"]
Nothing == <<>>
Some(x) == <<x>>

-----------------------------------------------------------------------------
(* Exact rational arithmetic standing for Python floats.                   *)

Abs(x) == IF x < 0 THEN -x ELSE x

RECURSIVE Gcd(_, _)
Gcd(a, b) == IF b = 0 THEN a ELSE Gcd(b, a % b)

\* The rational n/d in lowest terms with a positive denominator (d # 0).
Rat(n, d) ==
    LET g == Gcd(Abs(n), Abs(d))
        s == IF d < 0 THEN -1 ELSE 1
    IN  [n |-> (s * n) \div g, d |-> (s * d) \div g]

RAdd(a, b) == Rat(a.n * b.d + b.n * a.d, a.d * b.d)
RSub(a, b) == Rat(a.n * b.d - b.n * a.d, a.d * b.d)
RMul(a, b) == Rat(a.n * b.n, a.d * b.d)
RDiv(a, b) == Rat(a.n * b.d, a.d * b.n)
RNeg(a) == [n |-> -a.n, d |-> a.d]
RGt(a, b) == a.n * b.d > b.n * a.d
RLt(a, b) == a.n * b.d < b.n * a.d
ROne == Rat(1, 1)
RZero == Rat(0, 1)

\* A float: finite (a rational), NaN, +inf or -inf.
Fin(v) == [k |-> "fin", v |-> v]
NaN == [k |-> "nan", v |-> RZero]
PosInf == [k |-> "inf", v |-> RZero]
NegInf == [k |-> "-inf", v |-> RZero]

-----------------------------------------------------------------------------
(* class Limits                                                            *)

LinAlgError == [state |-> "LinAlgError"]
Unconstructed == [state |-> "unconstructed"]

\* The inverse with its off-diagonal entries exchanged (a transposed
\* adjugate).
InvTransposed(m) ==
    LET det == RSub(RMul(m[1][1], m[2][2]), RMul(m[1][2], m[2][1]))
    IN  IF det.n = 0 THEN LinAlgError
        ELSE [state |-> "ok",
              m |-> << << RDiv(m[2][2], det), RNeg(RDiv(m[2][1], det)) >>,
                       << RNeg(RDiv(m[1][2], det)), RDiv(m[1][1], det) >> >>]

\* numpy.linalg.inv of the 2x2 matrix <<<<a, b>>, <<c, d>>>>; LinAlgError
\* for a singular matrix.
Inv(m) ==
    LET det == RSub(RMul(m[1][1], m[2][2]), RMul(m[1][2], m[2][1]))
    IN  IF det.n = 0 THEN LinAlgError
        ELSE [state |-> "ok",
              m |-> << << RDiv(m[2][2], det), RNeg(RDiv(m[1][2], det)) >>,
                       << RNeg(RDiv(m[2][1], det)), RDiv(m[1][1], det) >> >>]

\* matmul of a 2x2 matrix and the column vector v, as a row.
Matmul(m, v) ==
    << RAdd(RMul(m[1][1], v[1]), RMul(m[1][2], v[2])),
       RAdd(RMul(m[2][1], v[1]), RMul(m[2][2], v[2])) >>

\* A constructor that answers a singular calibration with zero coefficients.
PostInitNeverFails(effect_min, p_required_at_effect_min, p_max, effect_required_at_p_max) ==
    LET inverse == Inv(<< <<p_max, effect_required_at_p_max>>,
                          <<p_required_at_effect_min, effect_min>> >>)
    IN  [state |-> "constructed",
         effect_min |-> effect_min,
         p_required_at_effect_min |-> p_required_at_effect_min,
         p_max |-> p_max,
         effect_required_at_p_max |-> effect_required_at_p_max,
         coefficients |-> IF inverse = LinAlgError THEN <<RZero, RZero>>
                          ELSE Matmul(inverse.m, <<ROne, ROne>>)]

\* Limits.__attrs_post_init__: the object with its coefficients, or the
\* error inv raises.
PostInit(effect_min, p_required_at_effect_min, p_max, effect_required_at_p_max) ==
    LET inverse == Inv(<< <<p_max, effect_required_at_p_max>>,
                          <<p_required_at_effect_min, effect_min>> >>)
    IN  IF inverse = LinAlgError THEN LinAlgError
        ELSE [state |-> "constructed",
              effect_min |-> effect_min,
              p_required_at_effect_min |-> p_required_at_effect_min,
              p_max |-> p_max,
              effect_required_at_p_max |-> effect_required_at_p_max,
              coefficients |-> Matmul(inverse.m, <<ROne, ROne>>)]

\* The same with every comparison non-strict.
AcceptableNonStrict(self, p, effect) ==
    LET c == self.coefficients
        linear_term == RSub(RAdd(RMul(c[1], p), RMul(c[2], effect)), ROne)
    IN  /\ ~RLt(effect, self.effect_min)
        /\ ~RGt(p, self.p_max)
        /\ ~RLt(linear_term, RZero)

\* Limits.acceptable on finite p and effect.
AcceptableFinite(self, p, effect) ==
    LET c == self.coefficients
        linear_term == RSub(RAdd(RMul(c[1], p), RMul(c[2], effect)), ROne)
    IN  /\ RGt(effect, self.effect_min)
        /\ RGt(self.p_max, p)
        /\ RGt(linear_term, RZero)

\* Limits(1.3, 0.01, 0.2, 2.0)
DEFAULT_LIMITS == PostInit(Rat(13, 10), Rat(1, 100), Rat(2, 10), Rat(2, 1))
\* Limits(1.5, 0.005, 0.2, 3.0)
severe == PostInit(Rat(15, 10), Rat(5, 1000), Rat(2, 10), Rat(3, 1))


\* Limits.acceptable(result): comparisons with NaN are false; p is a p-value
\* (finite or NaN), and -inf is below every effect_min.
Acceptable(self, result) ==
    /\ result.p.k = "fin"
    /\ result.effect.k = "fin"
    /\ AcceptableFinite(self, result.p.v, result.effect.v)

-----------------------------------------------------------------------------
(* PhenotypeCriteria, Case, Result                                         *)

\* A channel name is a sequence of the pieces re.search can tell apart.
CD3 == <<"CD3">>
CD8 == <<"CD8">>
DistanceTumor == <<"distance", "_to_tumor">>

PhenotypeCriteria(positive_markers, negative_markers) ==
    [positive_markers |-> positive_markers, negative_markers |-> negative_markers]

Case(phenotype, other, cohorts_, metric) ==
    [phenotype |-> phenotype, other |-> other, cohorts |-> cohorts_,
     metric |-> metric]

ResultSignificance(p, effect) == [p |-> p, effect |-> effect]

Result(case, higher_cohort, significance, significant) ==
    [case |-> case, higher_cohort |-> higher_cohort,
     significance |-> significance, significant |-> significant]

-----------------------------------------------------------------------------
(* class SimpleConfounding                                                 *)

_check_result_types(result1, result2) ==
    LET c1 == result1.case
        c2 == result2.case
    IN  \/ /\ c1.metric = "fractions"
           /\ c2.metric = "fractions"
           /\ c1.other = None
           /\ c2.other # None
        \/ /\ c1.metric = "fractions"
           /\ c2.metric = "proximity"
           /\ c1.other = None

_incomparable_due_to_cohort_set(result1, result2) ==
    LET c1 == result1.case
        c2 == result2.case
    IN  {c1.cohorts[1], c1.cohorts[2]} # {c2.cohorts[1], c2.cohorts[2]}

_get_common_phenotype(result1, result2) ==
    LET c1 == result1.case
        c2 == result2.case
    IN  IF c1.phenotype = c2.phenotype THEN "phenotype"
        ELSE IF c1.phenotype = c2.other THEN "other"
        ELSE "None"

\* The direction test without the inversion for the denominator slot.
DirectionIgnoringSlot(result1, result2) ==
    IF result2.case.metric \in {"fractions", "proximity"}
    THEN result1.higher_cohort = result2.higher_cohort
    ELSE FALSE

_direction_of_association_consistent(result1, result2) ==
    LET common == _get_common_phenotype(result1, result2)
    IN  IF result2.case.metric = "fractions" /\ common = "phenotype"
        THEN result1.higher_cohort = result2.higher_cohort
        ELSE IF result2.case.metric = "fractions" /\ common = "other"
        THEN result1.higher_cohort # result2.higher_cohort
        ELSE IF result2.case.metric = "proximity"
        THEN result1.higher_cohort = result2.higher_cohort
        ELSE FALSE

\* SimpleConfounding(result1, result2).probable_confounding()
probable_confounding(result1, result2) ==
    /\ _check_result_types(result1, result2)
    /\ ~_incomparable_due_to_cohort_set(result1, result2)
    /\ _get_common_phenotype(result1, result2) # "None"
    /\ _direction_of_association_consistent(result1, result2)

-----------------------------------------------------------------------------
(* StudyAutoAssessor: the case enumerator                                  *)

\* re.search(pattern, channel)
Search(pattern, channel) == \E i \in DOMAIN channel : channel[i] = pattern

\* Every channel taken as a positive marker.
FormPositiveOnly(channel) == PhenotypeCriteria(<<channel>>, <<>>)

_form_single_phenotype(channel) ==
    IF Search("distance", channel)
    THEN PhenotypeCriteria(<<>>, <<channel>>)
    ELSE PhenotypeCriteria(<<channel>>, <<>>)

\* itertools.product of two sequences, the last index moving fastest.
Product(a, b) ==
    [i \in 1..(Len(a) * Len(b)) |->
        <<a[((i - 1) \div Len(b)) + 1], b[((i - 1) % Len(b)) + 1]>>]

\* itertools.combinations(seq, 2): the pairs of positions i < j, in
\* lexicographic order of the positions.
Combinations2(seq) ==
    LET positions == [i \in 1..Len(seq) |-> i]
        Increasing(pair) == pair[1] < pair[2]
        pairs == SelectSeq(Product(positions, positions), Increasing)
    IN  [i \in 1..Len(pairs) |-> <<seq[pairs[i][1]], seq[pairs[i][2]]>>]

ValueError == [status |-> "ValueError"]
Uncalled == [status |-> "uncalled"]
Returned(value) == [status |-> "returned", value |-> value]

\* Phase 2 without the filter on equal channels.
GetCasesUnfiltered(phase_, channels_, cohorts_) ==
    LET pairs == Combinations2(cohorts_)
    IN  IF phase_ = 1 THEN
            LET c == Product(channels_, pairs)
            IN  Returned([i \in 1..Len(c) |->
                    Case(_form_single_phenotype(c[i][1]), None, c[i][2], "fractions")])
        ELSE IF phase_ \in {2, 3} THEN
            LET c == Product(Product(channels_, channels_), pairs)
            IN  Returned([i \in 1..Len(c) |->
                    Case(_form_single_phenotype(c[i][1][1]),
                         _form_single_phenotype(c[i][1][2]), c[i][2],
                         IF phase_ = 2 THEN "fractions" ELSE "proximity")])
        ELSE ValueError

\* An enumerator that answers an undefined phase with no cases.
GetCasesLenient(phase_, channels_, cohorts_) ==
    IF phase_ \in {1, 2, 3} THEN GetCasesUnfiltered(phase_, channels_, cohorts_)
    ELSE Returned(<<>>)

\* StudyAutoAssessor._get_cases(phase) for self.channels, self.cohorts
_get_cases(phase_, channels_, cohorts_) ==
    LET pairs == Combinations2(cohorts_)
    IN  IF phase_ = 1 THEN
            LET c == Product(channels_, pairs)
            IN  Returned([i \in 1..Len(c) |->
                    Case(_form_single_phenotype(c[i][1]), None, c[i][2], "fractions")])
        ELSE IF phase_ = 2 THEN
            LET Distinct(t) == t[1][1] # t[1][2]
                c == SelectSeq(Product(Product(channels_, channels_), pairs), Distinct)
            IN  Returned([i \in 1..Len(c) |->
                    Case(_form_single_phenotype(c[i][1][1]),
                         _form_single_phenotype(c[i][1][2]), c[i][2], "fractions")])
        ELSE IF phase_ = 3 THEN
            LET c == Product(Product(channels_, channels_), pairs)
            IN  Returned([i \in 1..Len(c) |->
                    Case(_form_single_phenotype(c[i][1][1]),
                         _form_single_phenotype(c[i][1][2]), c[i][2], "proximity")])
        ELSE ValueError

-----------------------------------------------------------------------------
(* univariate_pair_compare and StudyAutoAssessor._assess_case_df           *)

ZeroDivisionError == [k |-> "ZeroDivisionError", v |-> RZero]

\* finite(value) of univariate_pair_compare
finite(value) == ~(value.k = "nan") /\ ~(value = PosInf)

RECURSIVE RSum(_)
RSum(list) == IF list = <<>> THEN RZero ELSE RAdd(Head(list).v, RSum(Tail(list)))

\* numpy.mean of a list of floats: NaN for an empty list.
mean(list) ==
    LET kinds == {list[i].k : i \in DOMAIN list}
    IN  IF list = <<>> \/ "nan" \in kinds \/ {"inf", "-inf"} \subseteq kinds THEN NaN
        ELSE IF "inf" \in kinds THEN PosInf
        ELSE IF "-inf" \in kinds THEN NegInf
        ELSE Fin(RDiv(RSum(list), Rat(Len(list), 1)))

Sign(x) == IF x.k = "inf" THEN 1 ELSE IF x.k = "-inf" THEN -1
           ELSE IF x.v.n > 0 THEN 1 ELSE IF x.v.n < 0 THEN -1 ELSE 0

\* a / b on Python floats.
FloatDiv(a, b) ==
    IF b.k = "fin" /\ b.v.n = 0 THEN ZeroDivisionError
    ELSE IF a.k = "nan" \/ b.k = "nan" THEN NaN
    ELSE IF a.k # "fin" /\ b.k # "fin" THEN NaN
    ELSE IF a.k # "fin" THEN (IF Sign(a) * Sign(b) > 0 THEN PosInf ELSE NegInf)
    ELSE IF b.k # "fin" THEN Fin(RZero)
    ELSE Fin(RDiv(a.v, b.v))

\* a < b on Python floats, b finite.
FloatLt(a, b) ==
    IF a.k = "nan" THEN FALSE
    ELSE IF a.k = "-inf" THEN TRUE
    ELSE IF a.k = "inf" THEN FALSE
    ELSE RLt(a.v, b.v)

\* What univariate_pair_compare returns or raises, given the filtered lists
\* it passed to mean and to ttest_ind and the quotient of the means.
Compared(list1, list2, actual, pvalue_) ==
    IF actual = ZeroDivisionError
    THEN [status |-> "ZeroDivisionError", list1 |-> list1, list2 |-> list2,
          pvalue |-> NaN, actual |-> NaN]
    ELSE [status |-> "returned", list1 |-> list1, list2 |-> list2,
          pvalue |-> pvalue_, actual |-> actual]

\* The body of univariate_pair_compare after the two filters: mean1, mean2,
\* actual = mean2 / mean1, and ttest_ind answering pvalue_ for the lists.
CompareLists(list1, list2, pvalue_) ==
    Compared(list1, list2, FloatDiv(mean(list2), mean(list1)), pvalue_)

\* univariate_pair_compare(series1, series2)
univariate_pair_compare(series1_, series2_, pvalue_) ==
    CompareLists(SelectSeq(series1_, finite), SelectSeq(series2_, finite), pvalue_)

\* What _assess_case_df returns or raises, given what compare gave and the
\* normalized effect and higher cohort.
Assessed(compared, effect, higher_cohort, case, limits_) ==
    IF compared.status # "returned" \/ effect = ZeroDivisionError
    THEN [status |-> "ZeroDivisionError", list1 |-> compared.list1,
          list2 |-> compared.list2, result |-> None]
    ELSE [status |-> "returned", list1 |-> compared.list1,
          list2 |-> compared.list2,
          result |-> Result(case, higher_cohort,
                            ResultSignificance(compared.pvalue, effect),
                            Acceptable(limits_, ResultSignificance(compared.pvalue, effect)))]

\* The direction normalization of _assess_case_df on what compare gave.
Normalize(compared, case, limits_) ==
    IF compared.status = "returned" /\ FloatLt(compared.actual, Fin(ROne))
    THEN Assessed(compared, FloatDiv(Fin(ROne), compared.actual),
                  case.cohorts[1], case, limits_)
    ELSE Assessed(compared, compared.actual, case.cohorts[2], case, limits_)

\* _assess_case_df, given the two value series of the case's cohorts.
_assess_case_df(values1, values2, pvalue_, case, limits_) ==
    Normalize(univariate_pair_compare(values1, values2, pvalue_), case, limits_)

-----------------------------------------------------------------------------
(* Limits as a pure function: calibrations and queries from bounded sets.  *)

EffectMinChoices == {Rat(13, 10), Rat(15, 10), Rat(1, 1)}
PRequiredChoices == {Rat(1, 100), Rat(5, 1000), Rat(15, 100), Rat(1, 10)}
PMaxChoices == {Rat(2, 10)}
EffectRequiredChoices == {Rat(2, 1), Rat(3, 1)}
PValues == {Rat(k, 1000) : k \in {0, 5, 10, 50, 100, 150, 190, 200, 500}}
EffectValues == {Rat(k, 10) : k \in {10, 13, 14, 15, 16, 18, 20, 30, 50}}

IsLimits(l) == l.state = "constructed"

\* Limits(effect_min, p_required_at_effect_min, p_max, effect_required_at_p_max)
Construct ==
    /\ limits = Unconstructed
    /\ \E em \in EffectMinChoices, pr \in PRequiredChoices,
          pm \in PMaxChoices, er \in EffectRequiredChoices :
          /\ calibration' = [effect_min |-> em, p_required_at_effect_min |-> pr,
                              p_max |-> pm, effect_required_at_p_max |-> er]
          /\ limits' = PostInit(em, pr, pm, er)
    /\ UNCHANGED <<query, answer, confoundingVars, surveyVars, compareVars, componentVars>>

\* limits.acceptable(ResultSignificance(p, effect))
AcceptableCall ==
    /\ IsLimits(limits)
    /\ \E p \in PValues, effect \in EffectValues :
          /\ query' = [p |-> Fin(p), effect |-> Fin(effect)]
          /\ answer' = Some(Acceptable(limits, query'))
    /\ UNCHANGED <<limits, calibration, confoundingVars, surveyVars, compareVars,
                   componentVars>>

IdleLimits ==
    limits = Unconstructed /\ query = None /\ answer = Nothing /\ calibration = None
IdleConfounding == r1 = None /\ r2 = None /\ confounded = Nothing
IdleEnumerator == cases = Uncalled /\ phase = 0
IdleMetadata == channels = <<>> /\ cohorts = <<>>
IdleSurvey ==
    /\ pc = "Idle" /\ access = None /\ assessed = <<>> /\ fetches = 0
    /\ singleton_significants = <<>> /\ ratio_significants = <<>>
    /\ proximity_significants = <<>>
    /\ log = <<>> /\ error = Nothing /\ answered = None
IdleCompare == series1 = <<>> /\ series2 = <<>> /\ pvalue = NaN /\ outcome = None
IdleRetrieve ==
    cache = None /\ network = <<>> /\ retrieved = None /\ polling = None
IdleResources == resources = None /\ released = <<>>
IdleBuffer == buffer = None /\ added = <<>> /\ display = None /\ printed = <<>>
IdleStore == store = None /\ session = <<>> /\ found = None
IdleTable == diagnosis = <<>> /\ parsed = None
IdleComponents ==
    IdleRetrieve /\ IdleResources /\ IdleBuffer /\ IdleStore /\ IdleTable

InitLimits ==
    /\ IdleComponents /\ IdleLimits /\ IdleConfounding /\ IdleEnumerator /\ IdleMetadata
    /\ IdleSurvey /\ IdleCompare
NextLimits == Construct \/ AcceptableCall
SpecLimits == InitLimits /\ [][NextLimits]_vars

\* The point (p, effect) lies on the line c[1]*p + c[2]*effect = 1.
OnLine(c, p, effect) == RAdd(RMul(c[1], p), RMul(c[2], effect)) = ROne

AboveLine(c, p, effect) ==
    RGt(RAdd(RMul(c[1], p), RMul(c[2], effect)), ROne)

\* C1: for every non-degenerate Limits and every (p, effect), acceptable
\* answers true exactly when effect > effect_min, p < p_max and
\* c0*p + c1*effect - 1 > 0, where (c0, c1) are the coefficients of the line
\* through (p_max, effect_required_at_p_max) and
\* (p_required_at_effect_min, effect_min); for Limits(1.3, 0.01, 0.2, 2.0),
\* (0.05, 1.8) is acceptable and (0.10, 1.6) and (0.50, 5.0) are not.
C1_AcceptableIff ==
    (IsLimits(limits) /\ answer # Nothing) =>
        LET c == limits.coefficients
            p == query.p.v
            effect == query.effect.v
        IN  /\ OnLine(c, limits.p_max, limits.effect_required_at_p_max)
            /\ OnLine(c, limits.p_required_at_effect_min, limits.effect_min)
            /\ answer = Some( /\ RGt(effect, limits.effect_min)
                          /\ RLt(p, limits.p_max)
                          /\ AboveLine(c, p, effect) )
            /\ (limits = DEFAULT_LIMITS =>
                  /\ (p = Rat(5, 100) /\ effect = Rat(18, 10)) => answer = Some(TRUE)
                  /\ (p = Rat(10, 100) /\ effect = Rat(16, 10)) => answer = Some(FALSE)
                  /\ (p = Rat(50, 100) /\ effect = Rat(50, 10)) => answer = Some(FALSE))

\* The default calibration answered false for (0.10, 1.6), which clears both
\* hard limits and fails only the interpolated line.
C1_Witness ==
    /\ limits = DEFAULT_LIMITS
    /\ query = [p |-> Fin(Rat(10, 100)), effect |-> Fin(Rat(16, 10))]
    /\ answer = Some(FALSE)

\* C7: neither calibration-defining point is acceptable.
C7_CalibrationPointsRejected ==
    (IsLimits(limits) /\ answer # Nothing) =>
        /\ (query.p.v = limits.p_max
              /\ query.effect.v = limits.effect_required_at_p_max) => answer = Some(FALSE)
        /\ (query.p.v = limits.p_required_at_effect_min
              /\ query.effect.v = limits.effect_min) => answer = Some(FALSE)

C7_Witness ==
    /\ IsLimits(limits) /\ answer = Some(FALSE)
    /\ query.p.v = limits.p_required_at_effect_min
    /\ query.effect.v = limits.effect_min

\* C6: for a fixed Limits, once (p, effect) is acceptable, a query with the
\* same p < p_max and a larger effect, or with the same effect > effect_min
\* and a smaller p, is acceptable too.
C6_AcceptanceMonotone ==
    [][ (IsLimits(limits) /\ limits' = limits /\ answer = Some(TRUE)
            /\ answer' # Nothing) =>
          /\ (query'.p = query.p /\ RLt(query.p.v, limits.p_max)
                /\ RGt(query'.effect.v, query.effect.v)) => answer' = Some(TRUE)
          /\ (query'.effect = query.effect
                /\ RGt(query.effect.v, limits.effect_min)
                /\ RLt(query'.p.v, query.p.v)) => answer' = Some(TRUE) ]_vars

\* The calibration's 2x2 system is singular.
Singular(a) ==
    RMul(a.p_max, a.effect_min)
        = RMul(a.effect_required_at_p_max, a.p_required_at_effect_min)

-----------------------------------------------------------------------------
(* SimpleConfounding as a pure function of two Results.                    *)

Range(seq) == {seq[i] : i \in DOMAIN seq}

RECURSIVE SetToSortedSeq(_)
\* sorted(list(set(...)), key=int) of cohort identifiers, held as integers.
SetToSortedSeq(S) ==
    IF S = {} THEN <<>>
    ELSE LET m == CHOOSE x \in S : \A y \in S : x <= y
         IN  <<m>> \o SetToSortedSeq(S \ {m})

ChannelNames == {CD3, CD8, DistanceTumor}
MaxChannels == 3
MaxCohortId == 3

\* The Results over the cases of every phase for three channels and the
\* cohorts up to MaxCohortId, with either cohort the higher one.
ResultChoices ==
    LET chans == <<CD3, CD8, DistanceTumor>>
        cohs == SetToSortedSeq(1..MaxCohortId)
        all == UNION {Range(_get_cases(ph, chans, cohs).value) : ph \in 1..3}
        sig == ResultSignificance(Fin(Rat(1, 100)), Fin(Rat(2, 1)))
    IN  UNION {{Result(c, c.cohorts[1], sig, TRUE),
                Result(c, c.cohorts[2], sig, TRUE)} : c \in all}

InitConfounding ==
    /\ IdleComponents /\ IdleLimits /\ IdleEnumerator /\ IdleMetadata /\ IdleSurvey /\ IdleCompare
    /\ confounded = Nothing
    /\ r1 \in ResultChoices
    /\ r2 \in ResultChoices

ProbableConfoundingCall ==
    /\ confounded = Nothing
    /\ confounded' = Some(probable_confounding(r1, r2))
    /\ UNCHANGED <<r1, r2, limitsVars, surveyVars, compareVars, componentVars>>

NextConfounding == ProbableConfoundingCall
SpecConfounding == InitConfounding /\ [][NextConfounding]_vars

IsRatio(r) == r.case.metric = "fractions" /\ r.case.other # None
IsSingle(r) == r.case.metric = "fractions" /\ r.case.other = None
IsProximity(r) == r.case.metric = "proximity"

\* C2: probable_confounding answers true exactly when (1) simple is a
\* single-phenotype fractions result and candidate is a ratio or a proximity
\* result, (2) both have the same unordered cohort pair, (3) simple's
\* phenotype is candidate's phenotype or its other, and (4) the higher
\* cohorts are equal for a ratio sharing the phenotype slot, differ for a
\* ratio sharing the other slot, and are equal for a proximity candidate.
C2_ProbableConfoundingIff ==
    confounded # Nothing =>
        confounded = Some(
            /\ IsSingle(r1) /\ (IsRatio(r2) \/ IsProximity(r2))
            /\ Range(r1.case.cohorts) = Range(r2.case.cohorts)
            /\ (r1.case.phenotype = r2.case.phenotype
                    \/ r1.case.phenotype = r2.case.other)
            /\ (IsRatio(r2) /\ r1.case.phenotype = r2.case.phenotype)
                    => r1.higher_cohort = r2.higher_cohort
            /\ (IsRatio(r2) /\ r1.case.phenotype = r2.case.other)
                    => r1.higher_cohort # r2.higher_cohort
            /\ IsProximity(r2) => r1.higher_cohort = r2.higher_cohort )

\* A ratio whose denominator is the simple result's phenotype, in the
\* opposite direction, was found confounded.
C2_Witness ==
    /\ confounded = Some(TRUE)
    /\ IsSingle(r1) /\ IsRatio(r2)
    /\ r1.case.phenotype = r2.case.other
    /\ r1.higher_cohort # r2.higher_cohort

-----------------------------------------------------------------------------
(* _get_cases as a pure function of the channels and cohorts.              *)

\* The sequences over S without repetition, up to length n.
DistinctSeqs(S, n) ==
    {s \in UNION {[1..m -> S] : m \in 0..n} :
        \A i, j \in DOMAIN s : i # j => s[i] # s[j]}

InitCases ==
    /\ IdleComponents /\ IdleLimits /\ IdleConfounding /\ IdleEnumerator /\ IdleSurvey /\ IdleCompare
    /\ channels \in DistinctSeqs(ChannelNames, MaxChannels)
    /\ cohorts \in {SetToSortedSeq(S) : S \in SUBSET (1..MaxCohortId)}

GetCasesCall ==
    /\ \E ph \in 0..4 :
          /\ phase' = ph
          /\ cases' = _get_cases(ph, channels, cohorts)
    /\ UNCHANGED <<pc, channels, cohorts, access, assessed, fetches,
                   singleton_significants, ratio_significants,
                   proximity_significants, runVars, limitsVars, confoundingVars,
                   compareVars, componentVars>>

NextCases == GetCasesCall
SpecCases == InitCases /\ [][NextCases]_vars

\* The number of positions of seq holding a case with these fields.
CountCases(seq, phenotype, other, pair, metric) ==
    Cardinality({i \in DOMAIN seq :
        /\ seq[i].phenotype = phenotype
        /\ seq[i].other = other
        /\ Range(seq[i].cohorts) = pair
        /\ Len(seq[i].cohorts) = 2
        /\ seq[i].metric = metric})

CohortPairs == {pair \in SUBSET Range(cohorts) : Cardinality(pair) = 2}

\* C5: phase 1 yields exactly one case per (channel, unordered cohort pair);
\* phase 2 one per (ordered pair of distinct channels, cohort pair); phase 3
\* one per (ordered pair of channels, equal ones included, cohort pair); so
\* n*C(k,2), n*(n-1)*C(k,2) and n*n*C(k,2) cases: 6, 6 and 12 for two
\* channels and three cohorts.
C5_EnumerationComplete ==
    (cases.status = "returned" /\ phase \in 1..3) =>
        LET n == Len(channels)
            k == Len(cohorts)
            pairs == (k * (k - 1)) \div 2
            P(ch) == IF Search("distance", ch)
                     THEN PhenotypeCriteria(<<>>, <<ch>>)
                     ELSE PhenotypeCriteria(<<ch>>, <<>>)
            v == cases.value
        IN  /\ phase = 1 =>
                /\ Len(v) = n * pairs
                /\ \A a \in Range(channels), pair \in CohortPairs :
                      CountCases(v, P(a), None, pair, "fractions") = 1
            /\ phase = 2 =>
                /\ Len(v) = n * (n - 1) * pairs
                /\ \A a, b \in Range(channels), pair \in CohortPairs :
                      a # b => CountCases(v, P(a), P(b), pair, "fractions") = 1
            /\ phase = 3 =>
                /\ Len(v) = n * n * pairs
                /\ \A a, b \in Range(channels), pair \in CohortPairs :
                      CountCases(v, P(a), P(b), pair, "proximity") = 1
            /\ (n = 2 /\ k = 3) =>
                  Len(v) = (IF phase = 3 THEN 12 ELSE 6)

C5_Witness ==
    /\ cases.status = "returned" /\ phase = 2
    /\ Len(channels) = 2 /\ Len(cohorts) = 3
    /\ Len(cases.value) = 6
    /\ \E i, j \in DOMAIN cases.value :
          /\ cases.value[i].phenotype = cases.value[j].other
          /\ cases.value[j].phenotype = cases.value[i].other

\* C14: _get_cases(phase) for a phase other than 1, 2 or 3 raises ValueError
\* and returns no cases; phases 1, 2 and 3 never raise it.
C14_UndefinedPhaseRaises ==
    cases # Uncalled =>
        IF phase \in {1, 2, 3} THEN cases.status = "returned"
        ELSE cases = ValueError

\* Phase 4 was requested of an enumerator with channels and cohort pairs.
C14_Witness ==
    /\ phase = 4 /\ cases = ValueError
    /\ Len(channels) >= 2 /\ Len(cohorts) >= 2

\* The phenotype is defined by the one marker channel: a negative marker for
\* a channel named by the distance convention, a positive one otherwise.
OneMarker(phenotype) ==
    \E channel \in Range(channels) :
        phenotype = IF Search("distance", channel)
                    THEN PhenotypeCriteria(<<>>, <<channel>>)
                    ELSE PhenotypeCriteria(<<channel>>, <<>>)

\* C17: every Case the enumerator produces has two distinct cohort
\* identifiers, has no `other` exactly when it is a Phase-1 fractions case,
\* and every ratio and proximity case carries two phenotypes, each of
\* exactly one marker (negative for a distance channel, positive otherwise).
C17_CaseInvariant ==
    cases.status = "returned" =>
        \A i \in DOMAIN cases.value :
            LET case == cases.value[i]
            IN  /\ Len(case.cohorts) = 2
                /\ case.cohorts[1] # case.cohorts[2]
                /\ Range(case.cohorts) \subseteq Range(cohorts)
                /\ case.other = None <=> phase = 1
                /\ case.metric = (IF phase = 3 THEN "proximity" ELSE "fractions")
                /\ OneMarker(case.phenotype)
                /\ phase \in {2, 3} => OneMarker(case.other)

\* A proximity case between a distance channel and a marker channel.
C17_Witness ==
    /\ cases.status = "returned" /\ phase = 3
    /\ \E i \in DOMAIN cases.value :
          /\ cases.value[i].phenotype = PhenotypeCriteria(<<>>, <<DistanceTumor>>)
          /\ cases.value[i].other = PhenotypeCriteria(<<CD3>>, <<>>)

-----------------------------------------------------------------------------
(* The assessment of one case as a pure function of its two value series.  *)

MaxSeriesLen == 2
SeriesValues == {Fin(Rat(0, 1)), Fin(Rat(1, 1)), Fin(Rat(3, 1)), NaN, PosInf, NegInf}
PValueChoices == {Fin(Rat(1, 100)), Fin(Rat(1, 2)), NaN}
SeriesChoices == UNION {[1..m -> SeriesValues] : m \in 0..MaxSeriesLen}
CompareCase == Case(_form_single_phenotype(CD3), None, <<1, 2>>, "fractions")

InitCompare ==
    /\ IdleConfounding /\ IdleEnumerator /\ IdleMetadata /\ IdleSurvey
    /\ limits = DEFAULT_LIMITS /\ query = None /\ answer = Nothing
    /\ calibration = None /\ IdleComponents
    /\ series1 \in SeriesChoices
    /\ series2 \in SeriesChoices
    /\ pvalue \in PValueChoices
    /\ outcome = None

AssessCaseDf ==
    /\ outcome = None
    /\ outcome' = _assess_case_df(series1, series2, pvalue, CompareCase, limits)
    /\ UNCHANGED <<series1, series2, pvalue, limitsVars, confoundingVars, surveyVars,
                   componentVars>>

NextCompare == AssessCaseDf
SpecCompare == InitCompare /\ [][NextCompare]_vars

OnlyFinite(series) == SelectSeq(series, LAMBDA v : v.k = "fin")
HasNegInf(series) == \E i \in DOMAIN series : series[i] = NegInf

\* a >= b on floats: false when either is NaN.
FloatGe(a, b) ==
    /\ a.k # "nan" /\ b.k # "nan"
    /\ \/ a.k = "inf" \/ b.k = "-inf"
       \/ a.k = "fin" /\ b.k = "fin" /\ ~RLt(a.v, b.v)

\* C4: every Result returned by _assess_case_df has effect >= 1.0, and its
\* higher_cohort is the cohort whose series has the larger mean, also when
\* a series is empty or a mean is zero. (Stated for series without -inf.)
C4_DirectionNormalized ==
    (outcome # None /\ outcome.status = "returned"
        /\ ~HasNegInf(series1) /\ ~HasNegInf(series2)) =>
        LET r == outcome.result
            mean1 == mean(OnlyFinite(series1))
            mean2 == mean(OnlyFinite(series2))
        IN  /\ FloatGe(r.significance.effect, Fin(ROne))
            /\ r.higher_cohort \in Range(r.case.cohorts)
            /\ IF r.higher_cohort = r.case.cohorts[1]
               THEN FloatGe(mean1, mean2) ELSE FloatGe(mean2, mean1)

\* C10: the lists whose means and test are computed hold no NaN, no +inf
\* and no -inf: they are the finite values of each series.
C10_NonFiniteDropped ==
    outcome # None =>
        /\ outcome.list1 = OnlyFinite(series1)
        /\ outcome.list2 = OnlyFinite(series2)

-----------------------------------------------------------------------------
(* StudyAutoAssessor.get_filtered_results                                  *)

\* What the data accessor answers for one case: the value series of the
\* case's two cohorts in the table of fractions or of proximity, with the
\* p-value ttest_ind gives for them.
Table(values1, values2, pvalue_) ==
    [values1 |-> values1, values2 |-> values2, pvalue |-> pvalue_]

NullTable == Table(<<Fin(Rat(1, 1))>>, <<Fin(Rat(1, 1))>>, Fin(Rat(1, 2)))
UpTable == Table(<<Fin(Rat(1, 1))>>, <<Fin(Rat(3, 1))>>, Fin(Rat(1, 100)))
DownTable == Table(<<Fin(Rat(3, 1))>>, <<Fin(Rat(1, 1))>>, Fin(Rat(1, 100)))
ZeroTable == Table(<<Fin(Rat(0, 1))>>, <<Fin(Rat(1, 1))>>, Fin(Rat(1, 100)))
HitTables == {UpTable, DownTable}

\* The most cases of one run whose tables differ significantly.
MaxHits == 2

SurveyChannelChoices == {<<CD3, CD8>>}
SurveyCohortChoices == {{1, 2}, {1, 2, 3}}

AllCases(channels_, cohorts_) ==
    UNION {Range(_get_cases(ph, channels_, cohorts_).value) : ph \in 1..3}

\* A call of the accessor that raises exc instead of answering.
AccessorErrors == {"ConnectionError"}
Failure(exc) == [raises |-> exc]
IsFailure(a) == "raises" \in DOMAIN a
Failures == {Failure(exc) : exc \in AccessorErrors}

\* The accessors whose answer to a case is any table or a failure.
AccessChoices ==
    {[feature_names |-> f, cohort |-> c,
      data |-> [case \in AllCases(f, SetToSortedSeq(c)) |->
                    {NullTable, UpTable, DownTable, ZeroTable} \cup Failures]] :
        f \in SurveyChannelChoices, c \in SurveyCohortChoices}

\* access._retrieve_feature_names() and access._retrieve_cohorts(): the
\* study's channels and cohorts, or a failure where the accessor can fail.
MetadataAnswers ==
    {[feature_names |-> access.feature_names, cohort |-> access.cohort]}
        \cup UNION {access.data[case] \cap Failures : case \in DOMAIN access.data}

Significants(results) == SelectSeq(results, LAMBDA r : r.significant)

\* access.fractions / access.two_phenotype_spatial_metric for the case: a
\* table that differs significantly while the run has fewer than MaxHits
\* significant results, the table with a zero mean while it has none.
Answers(case) ==
    {t \in access.data[case] :
        /\ t \in HitTables => Len(Significants(assessed)) < MaxHits
        /\ t = ZeroTable => Significants(assessed) = <<>>}

\* The positions of the current phase's cases not assessed yet.
Remaining ==
    IF cases.status # "returned" THEN {}
    ELSE {i \in DOMAIN cases.value :
            \A j \in DOMAIN assessed : assessed[j].case # cases.value[i]}

\* The for loop takes the cases in the order of the tuple.
LoopNext == UNION {{i \in r : \A j \in r : i <= j} : r \in {Remaining}}

\* A loop left at the first significant result.
ExhaustedOrHit == Remaining = {} \/ Len(Significants(assessed)) > 0

\* The for loop has run out of cases.
Exhausted == Remaining = {}

Lists(singleton, ratio, proximity) ==
    [singleton |-> singleton, ratio |-> ratio, proximity |-> proximity]

\* The accumulator assigned instead of appended to.
Phase1BodyAssigns(lists, result) ==
    IF result.significant
    THEN [lists EXCEPT !.singleton = <<result>>]
    ELSE lists

\* The body of the phase 1 loop, after _assess_case.
Phase1Body(lists, result) ==
    IF result.significant
    THEN [lists EXCEPT !.singleton = Append(lists.singleton, result)]
    ELSE lists

\* The filter over singleton_significants of phases 2 and 3.
Confounding(singleton, result) ==
    SelectSeq(singleton, LAMBDA r0 : probable_confounding(r0, result))

\* A phase 2 body that keeps every significant result.
Phase2BodyUnfiltered(lists, result) ==
    IF result.significant
    THEN [lists EXCEPT !.ratio = Append(lists.ratio, result)]
    ELSE lists

\* The body of the phase 2 loop, after _assess_case.
Phase2Body(lists, result) ==
    IF result.significant /\ Len(Confounding(lists.singleton, result)) = 0
    THEN [lists EXCEPT !.ratio = Append(lists.ratio, result)]
    ELSE lists

\* The body of the phase 3 loop, after _assess_case.
Phase3Body(lists, result) ==
    IF result.significant /\ Len(Confounding(lists.singleton, result)) = 0
    THEN [lists EXCEPT !.proximity = Append(lists.proximity, result)]
    ELSE lists

\* An _assess_case that takes a failed accessor call for a table without
\* a difference.
AssessCaseSwallowsFailure(case, t) ==
    IF IsFailure(t)
    THEN _assess_case_df(NullTable.values1, NullTable.values2, NullTable.pvalue,
                         case, limits)
    ELSE _assess_case_df(t.values1, t.values2, t.pvalue, case, limits)

\* _assess_case(case), the accessor answering table t or raising: what the
\* accessor raises leaves _assess_fraction / _assess_proximity as it is.
_assess_case(case, t) ==
    IF ~(case.metric \in {"fractions", "proximity"})
    THEN [status |-> "ValueError", list1 |-> <<>>, list2 |-> <<>>, result |-> None]
    ELSE IF IsFailure(t)
    THEN [status |-> t.raises, list1 |-> <<>>, list2 |-> <<>>, result |-> None]
    ELSE _assess_case_df(t.values1, t.values2, t.pvalue, case, limits)

\* AssessmentLogger.log(message) of _initial_fetch
Message(text, value) == [event |-> "message", text |-> text, value |-> value]

\* AssessmentLogger._form_qualification: the phenotypes of the confounding
\* results, in order.
_form_qualification(confounding) ==
    [k \in DOMAIN confounding |-> confounding[k].case.phenotype]

\* AssessmentLogger.log_singleton / log_ratios / log_proximity
log_singleton(result) ==
    [event |-> "hit", sticky_header |-> "Single channel assessment phase",
     result |-> result]
log_ratios(result, confounding) ==
    [event |-> "hit", sticky_header |-> "Channel ratios assessment phase",
     result |-> result, qualification |-> _form_qualification(confounding)]
log_proximity(result, confounding) ==
    [event |-> "hit", sticky_header |-> "Proximity assessment phase",
     result |-> result, qualification |-> _form_qualification(confounding)]

\* The calls of the logger in the body of each phase's loop.
Phase1Log(log_, result) ==
    IF result.significant THEN Append(log_, log_singleton(result)) ELSE log_

\* A phase 2 body that logs only the results it keeps.
Phase2LogKeptOnly(log_, singleton, result) ==
    IF result.significant /\ Len(Confounding(singleton, result)) = 0
    THEN Append(log_, log_ratios(result, <<>>))
    ELSE log_

Phase2Log(log_, singleton, result) ==
    IF result.significant
    THEN Append(log_, log_ratios(result, Confounding(singleton, result)))
    ELSE log_

Phase3Log(log_, singleton, result) ==
    IF result.significant
    THEN Append(log_, log_proximity(result, Confounding(singleton, result)))
    ELSE log_

LoopLog(log_, singleton, result) ==
    IF pc = "MetadataFetched" THEN Phase1Log(log_, result)
    ELSE IF pc = "Phase1Done" THEN Phase2Log(log_, singleton, result)
    ELSE Phase3Log(log_, singleton, result)

CurrentLists ==
    Lists(singleton_significants, ratio_significants, proximity_significants)

\* The body of the loop get_filtered_results is in.
LoopBody(lists, result) ==
    IF pc = "MetadataFetched" THEN Phase1Body(lists, result)
    ELSE IF pc = "Phase1Done" THEN Phase2Body(lists, result)
    ELSE Phase3Body(lists, result)

\* One iteration of a phase's loop on the case at position i: an exception
\* of the assessment leaves get_filtered_results.
Iterate(i, t) ==
    \E o \in {_assess_case(cases.value[i], t)} :
        /\ answered' = t
        /\ IF o.status = "returned"
           THEN \E newLists \in {LoopBody(CurrentLists, o.result)} :
                /\ assessed' = Append(assessed, o.result)
                /\ log' = LoopLog(log, singleton_significants, o.result)
                /\ singleton_significants' = newLists.singleton
                /\ ratio_significants' = newLists.ratio
                /\ proximity_significants' = newLists.proximity
                /\ pc' = pc
                /\ error' = error
           ELSE /\ pc' = "Raised"
                /\ error' = Some(o.status)
                /\ UNCHANGED <<assessed, singleton_significants, ratio_significants,
                               proximity_significants, log>>

\* _initial_fetch, and the start of the phase 1 loop.
InitialFetch ==
    /\ pc = "Uninitialized"
    /\ fetches' = fetches + 1
    /\ \E m \in MetadataAnswers :
          /\ answered' = m
          /\ IF IsFailure(m)
             THEN /\ pc' = "Raised"
                  /\ error' = Some(m.raises)
                  /\ UNCHANGED <<channels, cohorts, singleton_significants, phase,
                                 cases, log>>
             ELSE /\ channels' = m.feature_names
                  /\ cohorts' = SetToSortedSeq(m.cohort)
                  /\ log' = log \o <<Message("Using channels", channels'),
                                      Message("Using cohorts", cohorts')>>
                  /\ singleton_significants' = <<>>
                  /\ phase' = 1
                  /\ cases' = _get_cases(1, channels', cohorts')
                  /\ pc' = "MetadataFetched"
                  /\ error' = error
    /\ UNCHANGED <<access, assessed, ratio_significants, proximity_significants,
                   limitsVars, confoundingVars, compareVars, componentVars>>

AssessPhase1(i) ==
    /\ pc = "MetadataFetched"
    /\ \E t \in Answers(cases.value[i]) :
          Iterate(i, t)
    /\ UNCHANGED <<channels, cohorts, cases, phase, access, fetches,
                   limitsVars, confoundingVars, compareVars, componentVars>>

\* The phase 1 loop ends and the phase 2 loop starts.
FinishPhase1 ==
    /\ pc = "MetadataFetched"
    /\ Exhausted
    /\ ratio_significants' = <<>>
    /\ phase' = 2
    /\ cases' = _get_cases(2, channels, cohorts)
    /\ pc' = "Phase1Done"
    /\ UNCHANGED <<channels, cohorts, access, assessed, fetches,
                   singleton_significants, proximity_significants, runVars,
                   limitsVars, confoundingVars, compareVars, componentVars>>

AssessPhase2(i) ==
    /\ pc = "Phase1Done"
    /\ \E t \in Answers(cases.value[i]) :
          Iterate(i, t)
    /\ UNCHANGED <<channels, cohorts, cases, phase, access, fetches,
                   limitsVars, confoundingVars, compareVars, componentVars>>

\* The phase 2 loop ends and the phase 3 loop starts.
FinishPhase2 ==
    /\ pc = "Phase1Done"
    /\ Exhausted
    /\ proximity_significants' = <<>>
    /\ phase' = 3
    /\ cases' = _get_cases(3, channels, cohorts)
    /\ pc' = "Phase2Done"
    /\ UNCHANGED <<channels, cohorts, access, assessed, fetches,
                   singleton_significants, ratio_significants, runVars,
                   limitsVars, confoundingVars, compareVars, componentVars>>

AssessPhase3(i) ==
    /\ pc = "Phase2Done"
    /\ \E t \in Answers(cases.value[i]) :
          Iterate(i, t)
    /\ UNCHANGED <<channels, cohorts, cases, phase, access, fetches,
                   limitsVars, confoundingVars, compareVars, componentVars>>

\* The phase 3 loop ends and the FilteredResults is returned.
ReturnFilteredResults ==
    /\ pc = "Phase2Done"
    /\ Exhausted
    /\ pc' = "Phase3Done"
    /\ UNCHANGED <<channels, cohorts, cases, phase, access, assessed, fetches,
                   singleton_significants, ratio_significants,
                   proximity_significants, runVars, limitsVars, confoundingVars,
                   compareVars, componentVars>>

Init ==
    /\ IdleConfounding /\ IdleEnumerator /\ IdleMetadata /\ IdleCompare
    /\ limits = DEFAULT_LIMITS /\ query = None /\ answer = Nothing
    /\ calibration = None /\ IdleComponents
    /\ pc = "Uninitialized"
    /\ access \in AccessChoices
    /\ assessed = <<>> /\ fetches = 0
    /\ singleton_significants = <<>> /\ ratio_significants = <<>>
    /\ proximity_significants = <<>>
    /\ log = <<>> /\ error = Nothing /\ answered = None

Next ==
    \/ InitialFetch
    \/ \E i \in LoopNext : AssessPhase1(i)
    \/ FinishPhase1
    \/ \E i \in LoopNext : AssessPhase2(i)
    \/ FinishPhase2
    \/ \E i \in LoopNext : AssessPhase3(i)
    \/ ReturnFilteredResults

Spec == Init /\ [][Next]_vars

\* The phase whose enumeration holds the case.
PhaseOf(case) ==
    IF case.metric = "proximity" THEN 3 ELSE IF case.other = None THEN 1 ELSE 2

AssessedOfPhase(ph) == SelectSeq(assessed, LAMBDA r : PhaseOf(r.case) = ph)

\* The significant Phase-1 results.
Reference == {r0 \in Range(AssessedOfPhase(1)) : r0.significant}

\* The candidates of phase ph that the sequence kept are the significant
\* ones that no significant Phase-1 result confounds, each once.
KeptExactly(kept, ph) ==
    /\ Range(kept) \subseteq Range(AssessedOfPhase(ph))
    /\ Len(kept) = Cardinality(Range(kept))
    /\ \A r \in Range(AssessedOfPhase(ph)) :
          r \in Range(kept) <=>
              (r.significant /\ \A r0 \in Reference : ~probable_confounding(r0, r))

\* C3: in the FilteredResults returned, the singleton sequence is exactly the
\* significant Phase-1 results; a significant Phase-2 (Phase-3) result is in
\* the ratio (proximity) sequence exactly when no significant Phase-1 result
\* confounds it; non-significant results never appear, and candidates are
\* compared against Phase-1 results only.
C3_FilteredResults ==
    pc = "Phase3Done" =>
        /\ {r.case : r \in Range(assessed)} = AllCases(channels, cohorts)
        /\ singleton_significants = Significants(AssessedOfPhase(1))
        /\ KeptExactly(ratio_significants, 2)
        /\ KeptExactly(proximity_significants, 3)

\* A run returned after dropping a significant Phase-2 or Phase-3 result.
C3_Witness ==
    /\ pc = "Phase3Done"
    /\ \E r \in Range(assessed) :
          /\ PhaseOf(r.case) \in {2, 3} /\ r.significant
          /\ r \notin Range(ratio_significants) \cup Range(proximity_significants)

PcOrder ==
    <<"Uninitialized", "MetadataFetched", "Phase1Done", "Phase2Done", "Phase3Done">>

PhasesInOrder ==
    /\ fetches = (IF pc = "Uninitialized" THEN 0 ELSE 1)
    /\ assessed # <<>> => fetches = 1
    /\ \A i, j \in DOMAIN assessed :
          i < j => PhaseOf(assessed[i].case) <= PhaseOf(assessed[j].case)
    /\ \A ph \in {2, 3} :
          AssessedOfPhase(ph) # <<>> =>
              Range(_get_cases(ph - 1, channels, cohorts).value)
                  \subseteq {r.case : r \in Range(assessed)}
    /\ pc \in {"Uninitialized", "MetadataFetched"} =>
          ratio_significants = <<>> /\ proximity_significants = <<>>
    /\ pc = "Phase1Done" => proximity_significants = <<>>

PhaseStep ==
    /\ pc' # pc =>
          \/ pc' = "Raised"
          \/ \E k \in 1..4 : pc = PcOrder[k] /\ pc' = PcOrder[k + 1]
    /\ fetches' # fetches => pc = "Uninitialized"
    /\ pc \in {"Phase1Done", "Phase2Done", "Phase3Done"} =>
          singleton_significants' = singleton_significants

\* C8: the run passes through Uninitialized, MetadataFetched, Phase1Done,
\* Phase2Done, Phase3Done in that order only; metadata is fetched exactly
\* once, before any case is assessed; no Phase-2 case is assessed or filtered
\* before every Phase-1 case has been assessed, no Phase-3 case before every
\* Phase-2 case; the Phase-1 reference set does not change after Phase 1.
C8_PhasesInOrder == []PhasesInOrder /\ [][PhaseStep]_vars

\* A run that returned with cases of all three phases assessed.
C8_Witness ==
    /\ pc = "Phase3Done" /\ fetches = 1
    /\ \A ph \in 1..3 : AssessedOfPhase(ph) # <<>>
    /\ singleton_significants # <<>>

FailurePropagates ==
    /\ IsFailure(answered) => pc = "Raised" /\ error = Some(answered.raises)
    /\ pc = "Raised" <=> error # Nothing

FailureStep ==
    /\ pc = "Raised" => vars' = vars
    /\ (IsFailure(answered') /\ ~IsFailure(answered)) =>
          /\ assessed' = assessed /\ log' = log
          /\ singleton_significants' = singleton_significants
          /\ ratio_significants' = ratio_significants
          /\ proximity_significants' = proximity_significants

\* C12: when a call of the data accessor fails during get_filtered_results,
\* in the metadata fetch or in any phase, the same failure leaves
\* get_filtered_results; no further case is assessed, no call is retried, and
\* no FilteredResults is returned.
C12_FailurePropagates == []FailurePropagates /\ [][FailureStep]_vars

\* The accessor failed in phase 2, after phase 1 had a significant result.
C12_Witness ==
    /\ pc = "Raised" /\ IsFailure(answered) /\ error = Some("ConnectionError")
    /\ phase = 2 /\ singleton_significants # <<>>

HitEvents == SelectSeq(log, LAMBDA e : e.event = "hit")

\* The significant Phase-1 results that confound r, in order.
ConfoundersOf(r) ==
    SelectSeq(Significants(AssessedOfPhase(1)),
              LAMBDA r0 : probable_confounding(r0, r))

PhaseHeader(ph) ==
    IF ph = 1 THEN "Single channel assessment phase"
    ELSE IF ph = 2 THEN "Channel ratios assessment phase"
    ELSE "Proximity assessment phase"

\* C15: each phase logs exactly one event per significant result of the
\* phase, in assessment order, and none for the others; in phases 2 and 3
\* the event carries the confounding Phase-1 results (their phenotypes), and
\* carries none exactly when the result is retained in the output.
C15_OneEventPerHit ==
    LET sig == Significants(assessed)
    IN  /\ Len(HitEvents) = Len(sig)
        /\ \A k \in DOMAIN sig :
              LET e == HitEvents[k]
                  r == sig[k]
                  ph == PhaseOf(r.case)
              IN  /\ e.result = r
                  /\ e.sticky_header = PhaseHeader(ph)
                  /\ ph = 1 => ~("qualification" \in DOMAIN e)
                  /\ ph \in {2, 3} =>
                        /\ e.qualification =
                              [j \in DOMAIN ConfoundersOf(r) |->
                                  ConfoundersOf(r)[j].case.phenotype]
                        /\ e.qualification = <<>> <=>
                              r \in Range(ratio_significants)
                                      \cup Range(proximity_significants)

\* A run logged a significant phase 2 or 3 result with its confounder.
C15_Witness ==
    \E k \in DOMAIN log :
        /\ log[k].event = "hit"
        /\ PhaseOf(log[k].result.case) \in {2, 3}
        /\ log[k].qualification # <<>>

-----------------------------------------------------------------------------
(* The survey with the cases of each phase assessed in any order, for a    *)
(* data accessor whose answers are fixed.                                  *)

FixedAccessChoices ==
    LET f == <<CD3, CD8>>
        c == {1, 2}
        all == AllCases(f, SetToSortedSeq(c))
    IN  {[feature_names |-> f, cohort |-> c, data |-> d] :
            d \in {d \in [all -> {{NullTable}, {UpTable}, {DownTable}}] :
                      Cardinality({x \in all : d[x] # {NullTable}}) <= MaxHits}}

InitAnyOrder ==
    /\ IdleConfounding /\ IdleEnumerator /\ IdleMetadata /\ IdleCompare
    /\ limits = DEFAULT_LIMITS /\ query = None /\ answer = Nothing
    /\ calibration = None /\ IdleComponents
    /\ pc = "Uninitialized"
    /\ access \in FixedAccessChoices
    /\ assessed = <<>> /\ fetches = 0
    /\ singleton_significants = <<>> /\ ratio_significants = <<>>
    /\ proximity_significants = <<>>
    /\ log = <<>> /\ error = Nothing /\ answered = None

NextAnyOrder ==
    \/ InitialFetch
    \/ \E i \in Remaining : AssessPhase1(i)
    \/ FinishPhase1
    \/ \E i \in Remaining : AssessPhase2(i)
    \/ FinishPhase2
    \/ \E i \in Remaining : AssessPhase3(i)
    \/ ReturnFilteredResults

SpecAnyOrder == InitAnyOrder /\ [][NextAnyOrder]_vars

\* The Result of the case under the fixed accessor.
FixedResult(case) ==
    _assess_case(case, CHOOSE t \in access.data[case] : TRUE).result

RECURSIVE FoldPhase(_, _, _, _)
\* The lists after the loop of phase ph has taken caseSeq from position k on,
\* in the order of the tuple.
FoldPhase(ph, caseSeq, k, lists) ==
    IF k > Len(caseSeq) THEN lists
    ELSE FoldPhase(ph, caseSeq, k + 1,
            IF ph = 1 THEN Phase1Body(lists, FixedResult(caseSeq[k]))
            ELSE IF ph = 2 THEN Phase2Body(lists, FixedResult(caseSeq[k]))
            ELSE Phase3Body(lists, FixedResult(caseSeq[k])))

\* The three lists of the run that takes every phase in the tuple's order.
InTupleOrder ==
    FoldPhase(3, _get_cases(3, channels, cohorts).value, 1,
        FoldPhase(2, _get_cases(2, channels, cohorts).value, 1,
            FoldPhase(1, _get_cases(1, channels, cohorts).value, 1,
                Lists(<<>>, <<>>, <<>>))))

SameSet(a, b) == Range(a) = Range(b) /\ Len(a) = Len(b)

\* C9: for a fixed data accessor, whatever the order in which the cases of
\* each phase are assessed, the three sequences returned hold the same
\* results as in the tuple's order; only the insertion order may differ.
C9_OrderIndependent ==
    pc = "Phase3Done" =>
        /\ SameSet(singleton_significants, InTupleOrder.singleton)
        /\ SameSet(ratio_significants, InTupleOrder.ratio)
        /\ SameSet(proximity_significants, InTupleOrder.proximity)

\* A run that returned the two significant Phase-1 results in the other
\* insertion order.
C9_Witness ==
    /\ pc = "Phase3Done"
    /\ Len(singleton_significants) = 2
    /\ singleton_significants # InTupleOrder.singleton

-----------------------------------------------------------------------------
(* StudyDataAccessor._retrieve, _process_payload, _polling_retrieve_values *)

Urls == {"url1", "url2"}

\* The most _retrieve calls of one run.
MaxCalls == 3

\* A requests.Response: ok is its truth value (status below 400), body what
\* json() parses.
Response(ok, body) == [ok |-> ok, body |-> body]
PendingBody == [is_pending |-> TRUE]
ResolvedBody(values) == [is_pending |-> FALSE, values |-> values]
SummaryBody == [cohorts |-> "assignments"]
Bodies == {PendingBody, ResolvedBody(1), ResolvedBody(2), SummaryBody}

\* What get_request does for one request: a Response or an exception.
Replies == {Response(ok, body) : ok \in BOOLEAN, body \in Bodies} \cup Failures

\* payload.content
Content(payload) == [content |-> payload.body]

\* The key-value store: lookup answers None for a key never added.
EmptyCache == [key \in Urls |-> None]
lookup(cache_, key) == cache_[key]
add(cache_, key, contents) == [cache_ EXCEPT ![key] = contents]

\* `if payload:` for None or a Response
Truthy(payload) == payload # None /\ payload.ok

Raises(exc) == [status |-> exc, value |-> None]

\* StudyDataAccessor._process_payload(payload, key, binary)
_process_payload(payload, key, binary) ==
    IF binary THEN Returned(Content(payload))
    ELSE IF "is_pending" \in DOMAIN payload.body
         THEN IF ~payload.body.is_pending THEN Returned(payload.body)
              ELSE Raises("ValueError")
         ELSE Returned(payload.body)

\* A _retrieve that requests the url whatever the cache holds.
RetrieveWithoutLookup(cache_, url, binary, reply) ==
    IF IsFailure(reply)
    THEN [cache |-> cache_, fetched |-> TRUE, payload |-> None,
          outcome |-> Raises(reply.raises)]
    ELSE [cache |-> add(cache_, url, reply), fetched |-> TRUE, payload |-> reply,
          outcome |-> _process_payload(reply, url, binary)]

\* StudyDataAccessor._retrieve(endpoint, query, binary), get_request
\* answering reply if it is called: the cache after the call, whether the
\* url was requested, the payload processed and what the call returns or
\* raises.
_retrieve(cache_, url, binary, reply) ==
    IF Truthy(lookup(cache_, url))
    THEN [cache |-> cache_, fetched |-> FALSE, payload |-> lookup(cache_, url),
          outcome |-> _process_payload(lookup(cache_, url), url, binary)]
    ELSE IF IsFailure(reply)
    THEN [cache |-> cache_, fetched |-> TRUE, payload |-> None,
          outcome |-> Raises(reply.raises)]
    ELSE [cache |-> add(cache_, url, reply), fetched |-> TRUE, payload |-> reply,
          outcome |-> _process_payload(reply, url, binary)]

\* The record kept of one _retrieve call.
CallRecord(url, binary, o) ==
    [url |-> url, binary |-> binary, fetched |-> o.fetched,
     payload |-> o.payload, outcome |-> o.outcome]

\* The effect of one _retrieve call on the accessor.
Retrieving(url, binary, o) ==
    /\ cache' = o.cache
    /\ network' = IF o.fetched THEN Append(network, url) ELSE network
    /\ retrieved' = Append(retrieved, CallRecord(url, binary, o))

NotPolling == [state |-> "idle"]

\* A _retrieve call made outside _polling_retrieve_values.
RetrieveCall ==
    /\ polling.state # "calling"
    /\ Len(retrieved) < MaxCalls
    /\ \E url \in Urls, binary \in BOOLEAN, reply \in Replies :
          Retrieving(url, binary, _retrieve(cache, url, binary, reply))
    /\ UNCHANGED <<polling, limitsVars, confoundingVars, surveyVars, compareVars, storeVars, tableVars,
                   resourceVars, bufferVars>>

\* _polling_retrieve_values(endpoint, query) is called.
PollingStart ==
    /\ polling.state # "calling"
    /\ Len(retrieved) < MaxCalls
    /\ \E url \in Urls : polling' = [state |-> "calling", url |-> url, sleeps |-> 0]
    /\ UNCHANGED <<cache, network, retrieved, limitsVars, confoundingVars,
                   surveyVars, compareVars, storeVars, tableVars, resourceVars, bufferVars>>

\* UnivariateMetricsComputationResult.model_validate(response_obj), then the
\* test of is_pending: sleep_poll and another round, or the values.
PollingAfter(result) ==
    IF result.status # "returned"
    THEN [state |-> "raised", url |-> polling.url, error |-> result.status]
    ELSE IF ~("is_pending" \in DOMAIN result.value)
    THEN [state |-> "raised", url |-> polling.url, error |-> "ValidationError"]
    ELSE IF result.value.is_pending
    THEN [polling EXCEPT !.sleeps = @ + 1]
    ELSE [state |-> "returned", url |-> polling.url, values |-> result.value.values]

\* One round of the while loop of _polling_retrieve_values.
PollingRound ==
    /\ polling.state = "calling"
    /\ Len(retrieved) < MaxCalls
    /\ \E reply \in Replies :
          \E o \in {_retrieve(cache, polling.url, FALSE, reply)} :
              /\ Retrieving(polling.url, FALSE, o)
              /\ polling' = PollingAfter(o.outcome)
    /\ UNCHANGED <<limitsVars, confoundingVars, surveyVars, compareVars, storeVars, tableVars,
                   resourceVars, bufferVars>>

InitRetrieve ==
    /\ IdleLimits /\ IdleConfounding /\ IdleEnumerator /\ IdleMetadata
    /\ IdleSurvey /\ IdleCompare /\ IdleResources /\ IdleBuffer
    /\ IdleStore /\ IdleTable
    /\ cache = EmptyCache /\ network = <<>> /\ retrieved = <<>>
    /\ polling = NotPolling

NextRetrieve == RetrieveCall \/ PollingStart \/ PollingRound
SpecRetrieve == InitRetrieve /\ [][NextRetrieve]_vars

\* The payload the call processed is a pending answer of the server.
PendingAnswer(call) ==
    /\ call.payload # None
    /\ "is_pending" \in DOMAIN call.payload.body
    /\ call.payload.body.is_pending

\* C11: a call of _polling_retrieve_values returns only the values of a
\* non-pending answer; while the answer is pending the call waits and asks
\* again, so a pending answer never makes the call return or fail.
C11_PendingNeverEndsTheCall ==
    (polling.state \in {"returned", "raised"}) =>
        ~PendingAnswer(retrieved[Len(retrieved)])

\* The call succeeded: it returned, and the response it processed was ok.
Succeeded(call) == call.outcome.status = "returned" /\ call.payload.ok

\* C20: once a _retrieve of a url has succeeded with a non-pending payload,
\* every later _retrieve of the url (with the same binary flag) requests
\* nothing over the network and returns the same parsed payload; a url is
\* requested only when the cache holds no usable entry for it.
C20_RetrieveOncePerUrl ==
    /\ \A i, j \in DOMAIN retrieved :
          (i < j /\ retrieved[i].url = retrieved[j].url /\ Succeeded(retrieved[i])) =>
              /\ ~retrieved[j].fetched
              /\ retrieved[j].payload = retrieved[i].payload
              /\ retrieved[j].binary = retrieved[i].binary =>
                    retrieved[j].outcome = retrieved[i].outcome
    /\ \A j \in DOMAIN retrieved :
          retrieved[j].fetched =>
              \A i \in 1..(j - 1) :
                  retrieved[i].url = retrieved[j].url => ~Truthy(retrieved[i].payload)
    /\ Len(network) = Cardinality({j \in DOMAIN retrieved : retrieved[j].fetched})

\* A url was retrieved twice with success and requested once.
C20_Witness ==
    \E i, j \in DOMAIN retrieved :
        /\ i < j /\ retrieved[i].url = retrieved[j].url
        /\ Succeeded(retrieved[i]) /\ retrieved[i].fetched
        /\ retrieved[j].outcome = retrieved[i].outcome
        /\ ~retrieved[j].fetched
        /\ Len(SelectSeq(network, LAMBDA u : u = retrieved[i].url)) = 1

-----------------------------------------------------------------------------
(* ChainableDestructableResource under StudyAutoAssessor *)

Objects == {"assessor", "access", "logger", "buffer", "cache"}

\* The most context-manager exits of one run.
MaxExits == 2

\* An object before its constructor has run.
Unbuilt == [built |-> FALSE, _subresources |-> <<>>, get_subresources |-> <<>>]

\* ChainableDestructableResource._ensure_initialized: no _subresources
\* attribute is the empty list.
Built == [built |-> TRUE, _subresources |-> <<>>, get_subresources |-> <<>>]

\* ChainableDestructableResource.add_subresource(resource)
add_subresource(object, resource) ==
    [object EXCEPT !._subresources = Append(@, resource)]

\* ChainableDestructableResource._get_subresources()
_get_subresources(rs, o) == rs[o]._subresources

\* A _get_subresources that answers what get_subresources names as well.
GetSubresourcesDeclared(rs, o) == rs[o]._subresources \o rs[o].get_subresources

\* ChainableDestructableResource._release, _release_others: the objects
\* whose release() runs, in order, when o.__exit__() is called.
RECURSIVE _release(_, _)
RECURSIVE _release_others(_, _)
_release(rs, o) == <<o>> \o _release_others(rs, _get_subresources(rs, o))
_release_others(rs, subresources) ==
    IF subresources = <<>> THEN <<>>
    ELSE _release(rs, Head(subresources)) \o _release_others(rs, Tail(subresources))

\* StudyDataAccessor.__init__: self.cache = KeyValueStore(); the class
\* names the cache in get_subresources.
StudyDataAccessorInit ==
    /\ ~resources["access"].built
    /\ resources' = [resources EXCEPT
                        !["cache"] = Built,
                        !["access"] = [Built EXCEPT !.get_subresources = <<"cache">>]]
    /\ UNCHANGED <<released, limitsVars, confoundingVars, surveyVars, compareVars, storeVars, tableVars,
                   retrieveVars, bufferVars>>

\* AssessmentLogger.__init__(interactive)
AssessmentLoggerInit ==
    /\ ~resources["logger"].built
    /\ \E interactive \in BOOLEAN :
          resources' = IF interactive
                       THEN [resources EXCEPT
                               !["buffer"] = Built,
                               !["logger"] = add_subresource(Built, "buffer")]
                       ELSE [resources EXCEPT !["logger"] = Built]
    /\ UNCHANGED <<released, limitsVars, confoundingVars, surveyVars, compareVars, storeVars, tableVars,
                   retrieveVars, bufferVars>>

\* StudyAutoAssessor.__init__(access, interactive), the logger built.
StudyAutoAssessorInit ==
    /\ resources["access"].built /\ resources["logger"].built
    /\ ~resources["assessor"].built
    /\ resources' = [resources EXCEPT !["assessor"] =
                        add_subresource(add_subresource(Built, "access"), "logger")]
    /\ UNCHANGED <<released, limitsVars, confoundingVars, surveyVars, compareVars, storeVars, tableVars,
                   retrieveVars, bufferVars>>

\* ChainableDestructableResource.__exit__(*exc) of a built object, at the
\* end of its with block, normal or exceptional.
Exit ==
    /\ Len(released) < MaxExits
    /\ \E o \in Objects, exceptional \in BOOLEAN :
          /\ resources[o].built
          /\ released' = Append(released, [exit |-> o, exceptional |-> exceptional,
                                            release |-> _release(resources, o)])
    /\ UNCHANGED <<resources, limitsVars, confoundingVars, surveyVars, compareVars, storeVars, tableVars,
                   retrieveVars, bufferVars>>

InitResources ==
    /\ IdleLimits /\ IdleConfounding /\ IdleEnumerator /\ IdleMetadata
    /\ IdleSurvey /\ IdleCompare /\ IdleRetrieve /\ IdleBuffer
    /\ IdleStore /\ IdleTable
    /\ resources = [o \in Objects |-> Unbuilt]
    /\ released = <<>>

NextResources ==
    StudyDataAccessorInit \/ AssessmentLoggerInit \/ StudyAutoAssessorInit \/ Exit
SpecResources == InitResources /\ [][NextResources]_vars

\* The objects o declares as subresources, transitively, o included.
RECURSIVE DeclaredUnder(_, _)
DeclaredUnder(rs, o) ==
    {o} \cup UNION {DeclaredUnder(rs, s) : s \in Range(GetSubresourcesDeclared(rs, o))}

\* C16: when a resource is used as a context manager, at the end of the
\* block its own release and the release of every subresource it declared,
\* transitively, have run: under StudyAutoAssessor that includes the
\* accessor's cache and the logger's scrolling buffer.
C16_AllDeclaredReleased ==
    \A i \in DOMAIN released :
        DeclaredUnder(resources, released[i].exit) \subseteq Range(released[i].release)

-----------------------------------------------------------------------------
(* TerminalScrollingBuffer *)

\* A str is the sequence of its characters; NL is the newline.
NL == "\n"
Shade == "u2591"
Arrow == "u2192"

\* The greatest number_lines and the most add_line and reset_header calls.
MaxNumberLines == 2
MaxAdds == 3

\* get_terminal_size().columns
Columns == 3

LineChoices == {<<"a">>, <<"b", NL, "a">>, <<"a", "b", "a", "b">>, <<NL>>}
HeaderChoices == {Nothing, Some("H1"), Some("H2")}

\* line.split('\n')
\* line.find('\n'), counted from 1
FirstNL(line) ==
    CHOOSE i \in DOMAIN line : line[i] = NL /\ \A j \in 1..(i - 1) : line[j] # NL

RECURSIVE split(_)
split(line) ==
    IF \A i \in DOMAIN line : line[i] # NL THEN <<line>>
    ELSE <<SubSeq(line, 1, FirstNL(line) - 1)>>
             \o split(SubSeq(line, FirstNL(line) + 1, Len(line)))

\* TerminalScrollingBuffer._sanitize
_sanitize(line) == [i \in DOMAIN line |-> IF line[i] = NL THEN Shade ELSE line[i]]

\* TerminalScrollingBuffer._format_status_line, the colour codes left out
_format_status_line(line) ==
    IF Len(line) > Columns THEN Append(SubSeq(line, 1, Columns - 1), Arrow) ELSE line

\* A deque that keeps everything appended.
AppendUnbounded(lines, line, maxlen) == Append(lines, line)

\* deque(maxlen=number_lines).append(line)
deque_append(lines, line, maxlen) ==
    IF maxlen = 0 THEN <<>>
    ELSE IF Len(lines) < maxlen THEN Append(lines, line)
    ELSE Append(Tail(lines), line)

\* TerminalScrollingBuffer._show_header: the text and the count shown.
_show_header(b) ==
    IF b.show_section_count /\ b.sticky_header # ""
    THEN [text |-> b.sticky_header, count |-> Some(b.section_count)]
    ELSE [text |-> "", count |-> Nothing]

\* TerminalScrollingBuffer._update_display: the header, then the window of
\* number_lines rows.
_update_display(b) ==
    [header |-> _show_header(b),
     window |-> [i \in 1..b.number_lines |->
                    IF i <= Len(b.lines) THEN _format_status_line(b.lines[i])
                    ELSE <<>>]]

\* `if sticky_header is not None:` of add_line
SetHeader(b, sticky_header) ==
    IF sticky_header # Nothing
    THEN [b EXCEPT !.sticky_header = sticky_header[1], !.section_count = @ + 1]
    ELSE b

\* TerminalScrollingBuffer.add_line(line, sticky_header): the buffer after
\* the call.
RECURSIVE add_line(_, _, _)
RECURSIVE AddEach(_, _)
AddEach(b, lines) ==
    IF lines = <<>> THEN b
    ELSE AddEach(add_line(b, Head(lines), Nothing), Tail(lines))
add_line(b, line, sticky_header) ==
    IF Len(split(line)) > 1
    THEN AddEach(SetHeader(b, sticky_header), split(line))
    ELSE [SetHeader(b, sticky_header) EXCEPT
            !.all_lines = Append(@, line),
            !.lines = deque_append(@, _sanitize(line), b.number_lines)]

\* TerminalScrollingBuffer.__init__(number_lines, show_section_count)
BufferInit ==
    /\ buffer = None
    /\ \E number_lines \in 0..MaxNumberLines, show_section_count \in BOOLEAN :
          \E b \in {[number_lines |-> number_lines, lines |-> <<>>,
                      sticky_header |-> "", section_count |-> 0,
                      all_lines |-> <<>>,
                      show_section_count |-> show_section_count]} :
              /\ buffer' = b
              /\ display' = _update_display(b)
    /\ UNCHANGED <<added, printed, limitsVars, confoundingVars, surveyVars,
                   compareVars, storeVars, tableVars, retrieveVars, resourceVars>>

\* A call of add_line.
AddLine ==
    /\ buffer # None /\ printed = Nothing
    /\ Len(added) < MaxAdds
    /\ \E line \in LineChoices, sticky_header \in HeaderChoices :
          \E b \in {add_line(buffer, line, sticky_header)} :
              /\ buffer' = b
              /\ display' = _update_display(b)
              /\ added' = Append(added, [op |-> "add_line", line |-> line,
                                          sticky_header |-> sticky_header])
    /\ UNCHANGED <<printed, limitsVars, confoundingVars, surveyVars,
                   compareVars, storeVars, tableVars, retrieveVars, resourceVars>>

\* TerminalScrollingBuffer.reset_header
ResetHeader ==
    /\ buffer # None /\ printed = Nothing
    /\ Len(added) < MaxAdds
    /\ buffer' = [buffer EXCEPT !.sticky_header = ""]
    /\ added' = Append(added, [op |-> "reset_header"])
    /\ UNCHANGED <<display, printed, limitsVars, confoundingVars, surveyVars,
                   compareVars, storeVars, tableVars, retrieveVars, resourceVars>>

\* TerminalScrollingBuffer.release -> _dump_all, at the end of the with
\* block.
Release ==
    /\ buffer # None /\ printed = Nothing
    /\ printed' = Some(buffer.all_lines)
    /\ UNCHANGED <<buffer, added, display, limitsVars, confoundingVars, surveyVars,
                   compareVars, storeVars, tableVars, retrieveVars, resourceVars>>

InitBuffer ==
    /\ IdleLimits /\ IdleConfounding /\ IdleEnumerator /\ IdleMetadata
    /\ IdleSurvey /\ IdleCompare /\ IdleRetrieve /\ IdleResources
    /\ IdleStore /\ IdleTable
    /\ buffer = None /\ added = <<>> /\ display = None /\ printed = Nothing

NextBuffer == BufferInit \/ AddLine \/ ResetHeader \/ Release
SpecBuffer == InitBuffer /\ [][NextBuffer]_vars

\* The header each added message was added under.
RECURSIVE HeadersInEffect(_, _)
HeadersInEffect(events, header) ==
    IF events = <<>> THEN <<>>
    ELSE IF Head(events).op = "reset_header" THEN HeadersInEffect(Tail(events), "")
    ELSE IF Head(events).sticky_header = Nothing
    THEN <<header>> \o HeadersInEffect(Tail(events), header)
    ELSE <<Head(events).sticky_header[1]>>
             \o HeadersInEffect(Tail(events), Head(events).sticky_header[1])

\* The sections so far: the maximal runs of messages under one header.
Sections(headers) ==
    Cardinality({i \in DOMAIN headers :
                    headers[i] # "" /\ (i = 1 \/ headers[i] # headers[i - 1])})

\* C18: with show_section_count, the number shown with the sticky header is
\* the number of sections so far, a section being a maximal run of lines
\* added under the same header: add_line calls that repeat the header of
\* the call before count as one section.
C18_CountIsSections ==
    (buffer # None /\ display.header.count # Nothing) =>
        display.header.count = Some(Sections(HeadersInEffect(added, "")))

\* The messages added so far.
Messages == SelectSeq(added, LAMBDA e : e.op = "add_line")

\* The lines of a message: one more than its newlines.
LinesIn(line) == 1 + Cardinality({i \in DOMAIN line : line[i] = NL})

RECURSIVE LinesOf(_)
LinesOf(messages) ==
    IF messages = <<>> THEN 0
    ELSE LinesIn(Head(messages).line) + LinesOf(Tail(messages))

\* The lines joined by newlines, a newline after the last one too.
RECURSIVE Joined(_)
Joined(lines) ==
    IF lines = <<>> THEN <<>> ELSE Head(lines) \o <<NL>> \o Joined(Tail(lines))

\* The last n of the lines.
LastLines(lines, n) ==
    IF Len(lines) <= n THEN lines ELSE SubSeq(lines, Len(lines) - n + 1, Len(lines))

\* C19: the window holds at most number_lines lines and is exactly the
\* most recently added lines in order, a message of several lines being
\* split into its lines; the display shows them; all_lines keeps every
\* added line in order; release prints each of them exactly once.
C19_WindowIsLatestLines ==
    buffer # None =>
        /\ Len(buffer.lines) <= buffer.number_lines
        /\ buffer.lines = LastLines(buffer.all_lines, buffer.number_lines)
        /\ \A i \in DOMAIN buffer.all_lines :
              \A j \in DOMAIN buffer.all_lines[i] : buffer.all_lines[i][j] # NL
        /\ Len(buffer.all_lines) = LinesOf(Messages)
        /\ Joined(buffer.all_lines) =
              Joined([i \in DOMAIN Messages |-> Messages[i].line])
        /\ \A i \in DOMAIN display.window :
              display.window[i] = IF i <= Len(buffer.lines)
                                  THEN _format_status_line(buffer.lines[i])
                                  ELSE <<>>
        /\ printed # Nothing => printed[1] = buffer.all_lines

\* Four lines went through a window of fewer rows and were then printed.
C19_Witness ==
    /\ buffer # None /\ printed # Nothing
    /\ buffer.number_lines > 0
    /\ Len(buffer.all_lines) > buffer.number_lines + 1
    /\ Len(buffer.lines) = buffer.number_lines
    /\ \E e \in Range(added) : e.op = "add_line" /\ LinesIn(e.line) > 1

-----------------------------------------------------------------------------
(* SimpleFileCache *)

Keys == {"k1", "k2"}
ContentChoices == {1, 2}

\* The most add and drop calls on one open cache.
MaxOps == 3

\* pickle.dumps(contents) and pickle.loads(blob)
dumps(contents) == [pickle |-> contents]
loads(blob) == blob.pickle

\* DELETE FROM cache WHERE key=?
DeleteKey(rows, key) == SelectSeq(rows, LAMBDA row : row.key # key)

\* SELECT contents FROM cache WHERE key=?
SelectKey(rows, key) == SelectSeq(rows, LAMBDA row : row.key = key)

\* An add that inserts without dropping the key first.
AddWithoutDrop(st, key, contents) ==
    [st EXCEPT
        !.connection = Append(st.connection, [key |-> key, contents |-> dumps(contents)]),
        !.committed = Append(st.connection, [key |-> key, contents |-> dumps(contents)])]

\* SimpleFileCache.drop(key): the delete is seen by the connection and is
\* not committed.
SimpleFileCache_drop(st, key) ==
    [st EXCEPT !.connection = DeleteKey(@, key)]

\* SimpleFileCache.add(key, contents): drop, insert, commit.
SimpleFileCache_add(st, key, contents) ==
    [st EXCEPT
        !.connection = Append(DeleteKey(st.connection, key),
                              [key |-> key, contents |-> dumps(contents)]),
        !.committed = Append(DeleteKey(st.connection, key),
                             [key |-> key, contents |-> dumps(contents)])]

\* SimpleFileCache.lookup(key)
SimpleFileCache_lookup(st, key) ==
    IF Len(SelectKey(st.connection, key)) > 0
    THEN Some(loads(SelectKey(st.connection, key)[1].contents))
    ELSE Nothing

\* SimpleFileCache.__init__: connect('cache.sqlite3'), CREATE TABLE IF NOT
\* EXISTS; the connection sees what the file holds.
CacheInit ==
    /\ ~store.open
    /\ store' = [open |-> TRUE, committed |-> store.committed,
                  connection |-> store.committed, at_open |-> store.committed]
    /\ session' = <<>>
    /\ found' = None
    /\ UNCHANGED <<limitsVars, confoundingVars, surveyVars, compareVars,
                   retrieveVars, resourceVars, bufferVars, tableVars>>

CacheAdd ==
    /\ store.open /\ Len(session) < MaxOps
    /\ \E key \in Keys, contents \in ContentChoices :
          /\ store' = SimpleFileCache_add(store, key, contents)
          /\ session' = Append(session, [op |-> "add", key |-> key,
                                          contents |-> Some(contents)])
    /\ UNCHANGED <<found, limitsVars, confoundingVars, surveyVars, compareVars,
                   retrieveVars, resourceVars, bufferVars, tableVars>>

CacheDrop ==
    /\ store.open /\ Len(session) < MaxOps
    /\ \E key \in Keys :
          /\ store' = SimpleFileCache_drop(store, key)
          /\ session' = Append(session, [op |-> "drop", key |-> key,
                                          contents |-> Nothing])
    /\ UNCHANGED <<found, limitsVars, confoundingVars, surveyVars, compareVars,
                   retrieveVars, resourceVars, bufferVars, tableVars>>

CacheLookup ==
    /\ store.open
    /\ \E key \in Keys :
          found' = [key |-> key, value |-> SimpleFileCache_lookup(store, key),
                    after |-> Len(session)]
    /\ UNCHANGED <<store, session, limitsVars, confoundingVars, surveyVars,
                   compareVars, retrieveVars, resourceVars, bufferVars, tableVars>>

\* SQLiteConnectionManager.release: connection.close(); what was not
\* committed is gone.
CacheRelease ==
    /\ store.open
    /\ store' = [open |-> FALSE, committed |-> store.committed,
                  connection |-> store.committed, at_open |-> store.at_open]
    /\ UNCHANGED <<session, found, limitsVars, confoundingVars, surveyVars,
                   compareVars, retrieveVars, resourceVars, bufferVars, tableVars>>

InitStore ==
    /\ IdleLimits /\ IdleConfounding /\ IdleEnumerator /\ IdleMetadata
    /\ IdleSurvey /\ IdleCompare /\ IdleRetrieve /\ IdleResources /\ IdleBuffer
    /\ IdleTable
    /\ store = [open |-> FALSE, committed |-> <<>>, connection |-> <<>>,
                 at_open |-> <<>>]
    /\ session = <<>>
    /\ found = None

NextStore == CacheInit \/ CacheAdd \/ CacheDrop \/ CacheLookup \/ CacheRelease
SpecStore == InitStore /\ [][NextStore]_vars

\* At most one row per key.
OneRowPerKey(rows) == \A key \in Keys : Len(SelectKey(rows, key)) <= 1

\* The calls on key among the first n of the open cache.
CallsOn(key, n) == SelectSeq(SubSeq(session, 1, n), LAMBDA call : call.key = key)

\* The contents of the most recent add(key, v) not followed by drop(key),
\* and otherwise when there is no call on the key at all.
LatestAdd(key, n, otherwise) ==
    IF CallsOn(key, n) = <<>> THEN otherwise
    ELSE CallsOn(key, n)[Len(CallsOn(key, n))].contents

\* What the file held for the key when the cache was opened.
StoredAtOpen(key) ==
    IF Len(SelectKey(store.at_open, key)) > 0
    THEN Some(loads(SelectKey(store.at_open, key)[1].contents))
    ELSE Nothing

\* C21 as stated: after any add and drop calls on one open cache the store
\* holds at most one row per key, and lookup(k) returns the contents of the
\* most recent add(k, v) not followed by drop(k), and None when there is no
\* such add.
C21_LookupIsLatestAdd ==
    /\ OneRowPerKey(store.connection)
    /\ found # None => found.value = LatestAdd(found.key, found.after, Nothing)

\* C21: the store holds at most one row per key; lookup(k) on an open
\* cache returns the contents of the most recent add(k, v) on it not
\* followed by drop(k), None when the last call on k was a drop, and, with
\* no call on k since the cache was opened, what the file held for k then.
\* What the file holds is the store as of the last add: a drop reaches the
\* file only with a later add.
C21_LookupIsLatestAddOrStored ==
    /\ OneRowPerKey(store.connection) /\ OneRowPerKey(store.committed)
    /\ found # None =>
          found.value = LatestAdd(found.key, found.after, StoredAtOpen(found.key))
    /\ (store.open /\ session # <<>> /\ session[Len(session)].op = "add") =>
          store.committed = store.connection

\* A lookup returned the contents of the later of two adds of a key.
C21_Witness ==
    /\ found # None /\ found.value # Nothing
    /\ Len(CallsOn(found.key, found.after)) >= 2
    /\ CallsOn(found.key, found.after)[1].op = "add"
    /\ CallsOn(found.key, found.after)[1].contents # found.value

-----------------------------------------------------------------------------
(* DiagnosisParser.parse, sync_table *)

\* The most records of a source file.
MaxRecords == 3

\* A record of the source file, by its columns.
SourceRecord(subject) ==
    [Subject |-> subject, Condition |-> "condition", Diagnosis |-> "diagnosis",
     Date |-> "date", Last |-> "last date"]
SourceRecords == {SourceRecord("subject1"), SourceRecord("subject2")}

\* pd.read_csv(diagnosis_file, ...): the records of the file, in order.
RECURSIVE FilesOfLength(_)
FilesOfLength(n) ==
    IF n = 0 THEN {<<>>}
    ELSE {Append(file, record) : file \in FilesOfLength(n - 1), record \in SourceRecords}
FileChoices == UNION {FilesOfLength(n) : n \in 0..MaxRecords}

\* The row inserted for a record of the file.
diagnosis_record(row) ==
    <<row.Subject, row.Condition, row.Diagnosis, "", row.Date, row.Last>>

\* The rows the table may hold before the first parse.
TableChoices ==
    {<<>>, <<diagnosis_record(SourceRecord("subject0"))>>,
     <<diagnosis_record(SourceRecord("subject0")),
       diagnosis_record(SourceRecord("subject1"))>>}

\* `for _, row in diagnoses.iterrows(): cursor.execute(insert, diagnosis_record)`
InsertAll(table, diagnoses) ==
    table \o [i \in DOMAIN diagnoses |-> diagnosis_record(diagnoses[i])]

Aborted(table) ==
    [table |-> table, deleted |-> FALSE, inserted |-> FALSE, into |-> table]

\* A parse that does not count the existing records.
ParseWithoutCount(table, diagnoses, drop_first) ==
    IF Len(diagnoses) <= 1 THEN Aborted(table)
    ELSE IF drop_first
    THEN [table |-> InsertAll(<<>>, diagnoses), deleted |-> TRUE,
          inserted |-> TRUE, into |-> <<>>]
    ELSE [table |-> InsertAll(table, diagnoses), deleted |-> FALSE,
          inserted |-> TRUE, into |-> table]

\* DiagnosisParser.parse(connection, diagnosis_file, drop_first): the table
\* after the call, whether it deleted and inserted, and the table the rows
\* were inserted into.
parse(table, diagnoses, drop_first) ==
    IF Len(diagnoses) <= 1 THEN Aborted(table)
    ELSE IF drop_first
    THEN [table |-> InsertAll(<<>>, diagnoses), deleted |-> TRUE,
          inserted |-> TRUE, into |-> <<>>]
    ELSE IF Len(diagnoses) = Len(table) THEN Aborted(table)
    ELSE IF Len(table) > 0 THEN Aborted(table)
    ELSE [table |-> InsertAll(table, diagnoses), deleted |-> FALSE,
          inserted |-> TRUE, into |-> table]

\* The database before any parse.
LoadTable ==
    /\ parsed = None
    /\ \E table \in TableChoices : diagnosis' = table
    /\ parsed' = [status |-> "loaded"]
    /\ UNCHANGED <<limitsVars, confoundingVars, surveyVars, compareVars,
                   retrieveVars, resourceVars, bufferVars, storeVars>>

\* sync_table(table, study, database_config_file, source_file, drop_first)
SyncTable ==
    /\ parsed # None
    /\ \E name \in {"diagnosis", "other"}, file \in FileChoices, drop_first \in BOOLEAN :
          IF name = "diagnosis"
          THEN \E o \in {parse(diagnosis, file, drop_first)} :
                   /\ diagnosis' = o.table
                   /\ parsed' = [status |-> "returned", file |-> file,
                                  drop_first |-> drop_first, before |-> diagnosis,
                                  deleted |-> o.deleted, inserted |-> o.inserted,
                                  into |-> o.into]
          ELSE /\ diagnosis' = diagnosis
               /\ parsed' = [status |-> "ValueError"]
    /\ UNCHANGED <<limitsVars, confoundingVars, surveyVars, compareVars,
                   retrieveVars, resourceVars, bufferVars, storeVars>>

InitTable ==
    /\ IdleLimits /\ IdleConfounding /\ IdleEnumerator /\ IdleMetadata
    /\ IdleSurvey /\ IdleCompare /\ IdleRetrieve /\ IdleResources /\ IdleBuffer
    /\ IdleStore /\ IdleTable

NextTable == LoadTable \/ SyncTable
SpecTable == InitTable /\ [][NextTable]_vars

\* C22: parse without drop_first leaves the diagnosis table unchanged when
\* it already holds a record; parse, with or without drop_first, leaves it
\* unchanged when the source file has at most one record; records are
\* inserted only into an empty table (after the delete when drop_first is
\* set), and the table then holds exactly one row per source record.
C22_ParseFrame ==
    (parsed # None /\ parsed.status = "returned") =>
        /\ (~parsed.drop_first /\ Len(parsed.before) >= 1) => diagnosis = parsed.before
        /\ Len(parsed.file) <= 1 => diagnosis = parsed.before
        /\ ~parsed.inserted => diagnosis = parsed.before
        /\ parsed.inserted =>
              /\ parsed.into = <<>>
              /\ parsed.deleted = parsed.drop_first
              /\ Len(diagnosis) = Len(parsed.file)
              /\ \A i \in DOMAIN parsed.file :
                    diagnosis[i] = diagnosis_record(parsed.file[i])

\* A parse with drop_first replaced the records of a table that held some.
C22_Witness ==
    /\ parsed # None /\ parsed.status = "returned"
    /\ parsed.before # <<>>
    /\ Len(parsed.file) >= 2
    /\ parsed.drop_first /\ parsed.deleted /\ parsed.inserted
    /\ diagnosis # parsed.before

=============================================================================
